---- MODULE Spec2Model ----
(***************************************************************************)
(* Model of snsTools/duplicate_resolver.py: duplicate_resolver,            *)
(* duplicate_column_checker and identify_null_data.                        *)
(*                                                                         *)
(* A DataFrame is a sequence of rows (records keyed by column name) plus   *)
(* the ordered list of its column names.  A cell is NaN or a Python        *)
(* string; a string is a sequence of one-character strings, so that        *)
(* endswith, len, slicing, comparison and join are computed, not assumed.  *)
(***************************************************************************)
EXTENDS Integers, Sequences, FiniteSets, TLC

VARIABLES
    entry,        \* the function the caller called
    input,        \* rows of the DataFrame handed to duplicate_resolver
    in_columns,   \* its column names, in order
    col,          \* argument col of duplicate_resolver
    column_list,  \* argument column_list of duplicate_resolver
    dup_ends_arg, \* argument dup_ends of duplicate_resolver
    warn,         \* argument warn of duplicate_resolver
    df,           \* rows of the frame being worked on
    columns,      \* df.columns
    column,       \* parameter column of the running duplicate_column_checker
    dup_ends,     \* parameter dup_ends of the running duplicate_column_checker
    order,        \* parameter order of the running duplicate_column_checker
    recurs,       \* parameter recurs of the running duplicate_column_checker
    new_df,       \* rows of the frame duplicate_resolver returns
    log,          \* records handed to logging.warning, in order
    pc            \* position in the code

vars == <<entry, input, in_columns, col, column_list, dup_ends_arg, warn, df, columns,
          column, dup_ends, order, recurs, new_df, log, pc>>

args == <<entry, input, in_columns, col, column_list, dup_ends_arg, warn>>

----------------------------------------------------------------------------
(* Cells and strings *)

NaN == <<"NaN">>

Dash == <<"-">>

\* what an operator gives where the code raises TypeError
TypeError == <<"TypeError">>

\* str(z) of a cell: the float nan prints as 'nan', a string as itself
PyStr(z) == IF z = NaN THEN <<"n", "a", "n">> ELSE z

\* code point of a character
Ord(c) ==
    CASE c = " " -> 32 [] c = "-" -> 45
      [] c = "0" -> 48 [] c = "1" -> 49 [] c = "2" -> 50 [] c = "3" -> 51
      [] c = "4" -> 52 [] c = "5" -> 53 [] c = "6" -> 54 [] c = "7" -> 55
      [] c = "8" -> 56 [] c = "9" -> 57
      [] c = "A" -> 65 [] c = "G" -> 71 [] c = "H" -> 72 [] c = "I" -> 73
      [] c = "S" -> 83 [] c = "_" -> 95
      [] c = "a" -> 97 [] c = "l" -> 108 [] c = "n" -> 110 [] c = "o" -> 111
      [] c = "p" -> 112 [] c = "x" -> 120 [] c = "y" -> 121 [] c = "z" -> 122

Min(a, b) == IF a <= b THEN a ELSE b

\* a < b for Python strings: lexicographic by code point
StrLess(a, b) ==
    \E i \in 1..(Min(Len(a), Len(b)) + 1) :
        /\ \A j \in 1..(i - 1) : a[j] = b[j]
        /\ \/ i > Len(a) /\ i <= Len(b)
           \/ i <= Len(a) /\ i <= Len(b) /\ Ord(a[i]) < Ord(b[i])

\* s.endswith(suffix)
EndsWith(s, suffix) ==
    /\ Len(suffix) <= Len(s)
    /\ SubSeq(s, Len(s) - Len(suffix) + 1, Len(s)) = suffix

\* s[:-k]
SliceOff(s, k) == IF k = 0 THEN <<>> ELSE SubSeq(s, 1, Len(s) - k)

\* position of a column name in a list of column names: columns.get_loc(x)
get_loc(cols, x) == CHOOSE i \in 1..Len(cols) : cols[i] = x

HasColumn(cols, x) == \E i \in 1..Len(cols) : cols[i] = x

\* sep.join(list)
RECURSIVE Join(_, _)
Join(sep, list) ==
    IF Len(list) = 0 THEN <<>>
    ELSE IF Len(list) = 1 THEN list[1]
    ELSE list[1] \o sep \o Join(sep, Tail(list))

----------------------------------------------------------------------------
(* Program constants *)

\* default of dup_ends
DefaultDupEnds ==
    << <<"_", "2">>, <<"_", "3">>,
       <<"_", "p", "o", "o", "l", "7", "A">>,
       <<"_", "p", "o", "o", "l", "1", "0", "A">> >>

\* default of column in duplicate_column_checker
DefaultColumn == "Sample"

\* default of recurs
DefaultRecurs == 2

\* the identity must be longer than this for a suffix to count
MinLen == 4

\* ffill(limit=...)
FillLimit == 1

----------------------------------------------------------------------------
(* DataFrame helpers *)

\* the row with one more (or one overwritten) cell
SetCell(row, name, value) ==
    [c \in (DOMAIN row) \cup {name} |-> IF c = name THEN value ELSE row[c]]

\* the row without a cell
DropCell(row, name) == [c \in (DOMAIN row) \ {name} |-> row[c]]

\* df.replace(old, new): every cell of every column
replace(t, old, new) ==
    [i \in 1..Len(t) |-> [c \in DOMAIN t[i] |-> IF t[i][c] = old THEN new ELSE t[i][c]]]

\* df[mask]: the rows whose mask entry is true, in order
RECURSIVE BoolIndex(_, _)
BoolIndex(t, mask) ==
    IF Len(t) = 0 THEN <<>>
    ELSE (IF mask[1] THEN <<t[1]>> ELSE <<>>) \o BoolIndex(Tail(t), Tail(mask))

\* one key of sort_values: NaN sorts last whatever the direction
KeyLess(a, b, ascending) ==
    IF a = NaN THEN FALSE
    ELSE IF b = NaN THEN TRUE
    ELSE IF ascending THEN StrLess(a, b) ELSE StrLess(b, a)

\* row r sorts strictly before row s under by=[k1, k2], ascending=[a1, a2]
RowBefore(r, s, k1, k2, a1, a2) ==
    \/ KeyLess(r[k1], s[k1], a1)
    \/ /\ ~KeyLess(s[k1], r[k1], a1)
       /\ KeyLess(r[k2], s[k2], a2)

\* 0-based position of row i after the (stable) sort
SortRank(t, i, k1, k2, a1, a2) ==
    Cardinality({j \in 1..Len(t) :
        \/ RowBefore(t[j], t[i], k1, k2, a1, a2)
        \/ /\ ~RowBefore(t[i], t[j], k1, k2, a1, a2)
           /\ j < i})

\* df.sort_values(by=[k1, k2], ascending=[a1, a2]).reset_index(): the old
\* index label (the 0-based position before the sort) becomes column 'index'
sort_values_reset_index(t, k1, k2, a1, a2) ==
    [k \in 1..Len(t) |->
        LET i == CHOOSE i \in 1..Len(t) : SortRank(t, i, k1, k2, a1, a2) = k - 1
        IN  SetCell(t[i], "index", i - 1)]

\* ffill(limit) of one column of a block of rows: cell k of the result
FfillCell(block, c, k, limit) ==
    IF block[k][c] # NaN THEN block[k][c]
    ELSE LET valid == {j \in 1..(k - 1) : block[j][c] # NaN}
         IN  IF valid = {} THEN NaN
             ELSE LET last == CHOOSE j \in valid : \A m \in valid : m <= j
                  IN  IF k - last <= limit THEN block[last][c] ELSE NaN

----------------------------------------------------------------------------
(* identify_null_data *)

\* identify_null_data taking a row without any cell to look at as data
identify_null_data_empty_is_data(x, col_ix) ==
    LET column_cells == [k \in 1..Len(col_ix) |-> x[columns[col_ix[k]]]]
        all_row_cell_values ==
            {column_cells[k] : k \in {k \in 1..Len(col_ix) :
                                        PyStr(column_cells[k]) # <<"n", "a", "n">>}}
    IN  IF Cardinality(all_row_cell_values) = 1 /\ Dash \in all_row_cell_values
        THEN FALSE
        ELSE IF Cardinality(all_row_cell_values) = 0
        THEN Len(col_ix) = 0
        ELSE TRUE

\* x: a row of the frame; col_ix: positions in its column names
identify_null_data(x, col_ix) ==
    LET column_cells == [k \in 1..Len(col_ix) |-> x[columns[col_ix[k]]]]
        all_row_cell_values ==
            {column_cells[k] : k \in {k \in 1..Len(col_ix) :
                                        PyStr(column_cells[k]) # <<"n", "a", "n">>}}
    IN  IF Cardinality(all_row_cell_values) = 1 /\ Dash \in all_row_cell_values
        THEN FALSE
        ELSE IF Cardinality(all_row_cell_values) = 0
        THEN FALSE
        ELSE TRUE

----------------------------------------------------------------------------
(* duplicate_column_checker, step by step *)

\* the list of column names the checker reconciles: duplicate_resolver
\* hands it column_list
columns_names == column_list

\* cond of one row for one suffix
cond(value, dup) ==
    /\ value # NaN
    /\ EndsWith(value, dup)
    /\ Len(value) > MinLen

\* the loop over the suffixes stopping at the first suffix that matches
same_after_loop_first(same, value, ends) ==
    LET hits == {k \in 1..Len(ends) : cond(value, ends[k])}
    IN  IF hits = {} THEN same
        ELSE SliceOff(value, Len(ends[CHOOSE k \in hits : \A m \in hits : k <= m]))

\* the cell of column 'same' of one row after the loop over the suffixes:
\* every matching suffix overwrites what an earlier one wrote
RECURSIVE same_after_loop(_, _, _)
same_after_loop(same, value, ends) ==
    IF Len(ends) = 0 THEN same
    ELSE same_after_loop(
            IF cond(value, ends[1]) THEN SliceOff(value, Len(ends[1])) ELSE same,
            value, Tail(ends))

\* df.same.combine_first(df[column])
combine_first(same, value) == IF same = NaN THEN value ELSE same

\* the group key of one row
same_of(row, name, ends) ==
    combine_first(
        same_after_loop(IF "same" \in DOMAIN row THEN row["same"] ELSE NaN,
                        row[name], ends),
        row[name])

\* df.iloc[num:num+2, col_ix] = df.iloc[num:num+2, col_ix].ffill(limit=1):
\* rows num and num + 1 (1-based) forward filled in the columns at the
\* positions col_ix
ffill_block(t, num, col_ix) ==
    LET block == SubSeq(t, num, num + 1)
        filled == [k \in 1..2 |->
                     [c \in DOMAIN block[k] |->
                         IF \E n \in 1..Len(col_ix) : columns[col_ix[n]] = c
                         THEN FfillCell(block, c, k, FillLimit)
                         ELSE block[k][c]]]
    IN  [i \in 1..Len(t) |->
            IF i = num THEN filled[1]
            ELSE IF i = num + 1 THEN filled[2] ELSE t[i]]

\* fill_pair with the positions taken before reset_index put 'index' in
\* front: every position is one too far to the right
fill_pair_shifted(t, num, col_ix) ==
    LET current_sam == t[num]["same"]
        next_sam == t[num + 1]["same"]
    IN  IF current_sam # NaN /\ current_sam = next_sam
        THEN ffill_block(t, num, [k \in 1..Len(col_ix) |-> col_ix[k] + 1])
        ELSE t

\* one turn of the adjacency loop: the fill happens when the keys of the
\* row and of the next row agree (NaN never equals NaN)
fill_pair(t, num, col_ix) ==
    LET current_sam == t[num]["same"]
        next_sam == t[num + 1]["same"]
    IN  IF current_sam # NaN /\ current_sam = next_sam
        THEN ffill_block(t, num, col_ix)
        ELSE t

\* the adjacency loop filling every row from the row before it as that row
\* was when the loop began: a value moves one row only
fill_loop_snapshot(t, num, col_ix) ==
    [i \in 1..Len(t) |->
        IF i > num /\ t[i - 1]["same"] # NaN /\ t[i - 1]["same"] = t[i]["same"]
        THEN ffill_block(t, i - 1, col_ix)[i]
        ELSE t[i]]

\* for num in range(0, df.shape[0]-1), from num (1-based) on
RECURSIVE fill_loop(_, _, _)
fill_loop(t, num, col_ix) ==
    IF num > Len(t) - 1 THEN t
    ELSE fill_loop(fill_pair(t, num, col_ix), num + 1, col_ix)

----------------------------------------------------------------------------
(* The calls explored *)

\* most rows a table handed to the resolver has
MaxRows == 3

GH == <<"G", "H">>
GH_2 == <<"G", "H", "_", "2">>
GH_3 == <<"G", "H", "_", "3">>
GHI == <<"G", "H", "I">>
GHI_2 == <<"G", "H", "I", "_", "2">>
GHI_3 == <<"G", "H", "I", "_", "3">>

\* the identity values a table draws from, in the order its rows come
Pool == <<GHI_2, GH, GHI_3, GH_2, GHI, GH_3>>

\* the cells of one row outside the identity column
Profiles ==
    { [field1 |-> <<"x">>, field2 |-> NaN,     Batch |-> <<"o">>],
      [field1 |-> NaN,     field2 |-> <<"y">>, Batch |-> Dash],
      [field1 |-> NaN,     field2 |-> NaN,     Batch |-> <<"o">>],
      [field1 |-> Dash,    field2 |-> NaN,     Batch |-> <<"o">>] }

\* the text 'nan': a string, not a null
nan_text == <<"n", "a", "n">>

Digits == <<"1", "2", "3", "4", "5", "6", "7", "8", "9">>

\* how a call is made: the function called, the identity column, the layout
\* of the table, and the remaining arguments; a call of
\* duplicate_column_checker itself passes columns_names (column_list),
\* column (col) and dup_ends, and leaves order and recurs to their defaults
Calls ==
    LET both == <<"field1", "field2">>
        C(c, lay, cl, w, de) ==
            [entry |-> "duplicate_resolver", col |-> c, layout |-> lay,
             column_list |-> cl, warn |-> w, dup_ends |-> de]
    IN  { C("Sample", "plain", both, TRUE, DefaultDupEnds),
          C("Sample", "plain", <<"field1">>, FALSE, DefaultDupEnds),
          C("Sample", "plain", <<>>, TRUE, DefaultDupEnds),
          C("Sample", "plain", both, TRUE, << <<"_", "2">> >>),
          C("Name", "plain", both, TRUE, DefaultDupEnds),
          C("Name", "labelled", both, TRUE, DefaultDupEnds),
          C("Sample", "dashed", both, TRUE, DefaultDupEnds),
          C("Sample", "dashed", <<>>, TRUE, DefaultDupEnds),
          C("Sample", "nan_text", <<"field1">>, FALSE, DefaultDupEnds),
          [entry |-> "duplicate_column_checker", col |-> "Sample", layout |-> "plain",
           column_list |-> both, warn |-> FALSE,
           dup_ends |-> << <<"_", "2">>, <<"2">> >>] }

\* the column names of a table: the identity column, for the labelled
\* layout a separate "Sample" column, then the data columns
ColumnsOf(call) ==
    <<call.col>>
    \o (IF call.layout = "labelled" THEN <<"Sample">> ELSE <<>>)
    \o <<"field1", "field2", "Batch">>

\* the k-th smallest element of a set of numbers
Kth(S, k) == CHOOSE i \in S : Cardinality({j \in S : j < i}) = k - 1

\* row i of a table: in the labelled layout column "Sample" numbers the
\* rows; in the nan_text layout the row named GHI has the text 'nan' where
\* it would have 'x'
MkRow(call, id, prof, i) ==
    LET base == [c \in {call.col, "field1", "field2", "Batch"} |->
                    IF c = call.col THEN id ELSE prof[c]]
    IN  IF call.layout = "labelled"
        THEN SetCell(base, "Sample", <<"S", Digits[i]>>)
        ELSE IF call.layout = "nan_text" /\ id = GHI /\ prof["field1"] = <<"x">>
        THEN SetCell(base, "field1", nan_text)
        ELSE base

\* the identity value of row i of the table made of the places S of Pool:
\* in the dashed layout the row that would be named GH has the dash
IdentityOf(call, S, i) ==
    IF call.layout = "dashed" /\ Pool[Kth(S, i)] = GH
    THEN Dash
    ELSE Pool[Kth(S, i)]

\* the tables of a call: one to MaxRows rows with distinct identity values
\* (strings; never null, and the dash in the dashed layout only), in the
\* order of Pool, each with any of the Profiles; the index of a table is
\* the default 0..n-1
Tables(call) ==
    UNION { { [i \in 1..Cardinality(S) |->
                 MkRow(call, IdentityOf(call, S, i), prof[i], i)] :
              prof \in [1..Cardinality(S) -> Profiles] } :
            S \in {S \in SUBSET (1..Len(Pool)) :
                     Cardinality(S) >= 1 /\ Cardinality(S) <= MaxRows} }

----------------------------------------------------------------------------
(* The state machine *)

Init ==
    \E call \in Calls :
        \E t \in Tables(call) :
            /\ entry = call.entry
            /\ input = t
            /\ in_columns = ColumnsOf(call)
            /\ col = call.col
            /\ column_list = call.column_list
            /\ dup_ends_arg = call.dup_ends
            /\ warn = call.warn
            /\ df = t
            /\ columns = ColumnsOf(call)
            /\ column = DefaultColumn
            /\ dup_ends = DefaultDupEnds
            /\ order = FALSE
            /\ recurs = DefaultRecurs
            /\ new_df = <<>>
            /\ log = <<>>
            /\ pc = "call"

\* duplicate_resolver calls duplicate_column_checker(df, column_list, column=col):
\* order, recurs and dup_ends take their defaults
CallChecker ==
    /\ pc = "call"
    /\ entry = "duplicate_resolver"
    /\ column' = col
    /\ dup_ends' = DefaultDupEnds
    /\ order' = FALSE
    /\ recurs' = DefaultRecurs
    /\ pc' = "check"
    /\ UNCHANGED <<args, df, columns, new_df, log>>

\* the caller calls duplicate_column_checker(df, columns_names,
\* dup_ends=dup_ends, column=column) itself
CallCheckerDirectly ==
    /\ pc = "call"
    /\ entry = "duplicate_column_checker"
    /\ column' = col
    /\ dup_ends' = dup_ends_arg
    /\ order' = FALSE
    /\ recurs' = DefaultRecurs
    /\ pc' = "check"
    /\ UNCHANGED <<args, df, columns, new_df, log>>

\* if recurs < 1: return df, to duplicate_resolver or to the caller
ReturnFrame ==
    /\ pc = "check"
    /\ recurs < 1
    /\ pc' = IF entry = "duplicate_resolver" THEN "filter" ELSE "returned"
    /\ UNCHANGED <<args, df, columns, column, dup_ends, order, recurs, new_df, log>>

\* df = df.replace('-', np.nan)
ReplaceDashes ==
    /\ pc = "check"
    /\ recurs >= 1
    /\ df' = replace(df, Dash, NaN)
    /\ pc' = "canon"
    /\ UNCHANGED <<args, columns, column, dup_ends, order, recurs, new_df, log>>

\* df[column].str of line 93 works: the column holds a string.  A column
\* holding NaN only is a column of floats, which has no .str
HasStr(t, name) == \E i \in 1..Len(t) : t[i][name] # NaN

\* the loop over dup_ends and the combine_first run without an exception:
\* the frame has the column, the loop (when there is a suffix to loop
\* over) finds strings in it, and df.same exists when line 97 reads it
same_can_be_written ==
    /\ HasColumn(columns, column)
    /\ Len(dup_ends) > 0 => HasStr(df, column)
    /\ Len(dup_ends) > 0 \/ HasColumn(columns, "same")

\* FillSame writing the cut name into the identity column itself
FillSame_into_column ==
    /\ pc = "canon"
    /\ same_can_be_written
    /\ df' = [i \in 1..Len(df) |->
                LET key == same_of(df[i], column, dup_ends)
                IN  SetCell(SetCell(df[i], "same", key), column, key)]
    /\ columns' = IF HasColumn(columns, "same") THEN columns
                  ELSE Append(columns, "same")
    /\ pc' = "sort"
    /\ UNCHANGED <<args, column, dup_ends, order, recurs, new_df, log>>

\* the loop over dup_ends and the combine_first: column 'same' is written
FillSame ==
    /\ pc = "canon"
    /\ same_can_be_written
    /\ df' = [i \in 1..Len(df) |->
                SetCell(df[i], "same", same_of(df[i], column, dup_ends))]
    /\ columns' = IF HasColumn(columns, "same") THEN columns
                  ELSE Append(columns, "same")
    /\ pc' = "sort"
    /\ UNCHANGED <<args, column, dup_ends, order, recurs, new_df, log>>

\* df[column] of a column the frame does not have (KeyError), .str of a
\* column without a string or df.same of a frame without that column
\* (AttributeError): the call ends with the exception.  The loop reads
\* df[column] first and its .str next; with no suffix to loop over, df.same
\* is read first and df[column] after it
RaiseKeyError ==
    /\ pc = "canon"
    /\ ~same_can_be_written
    /\ pc' = IF /\ ~HasColumn(columns, column)
                /\ Len(dup_ends) > 0 \/ HasColumn(columns, "same")
             THEN "KeyError" ELSE "AttributeError"
    /\ UNCHANGED <<args, df, columns, column, dup_ends, order, recurs, new_df, log>>

\* df = df.sort_values(by=['same', column], ascending=[False, order]).reset_index()
SortFrame ==
    /\ pc = "sort"
    /\ df' = sort_values_reset_index(df, "same", column, FALSE, order)
    /\ columns' = <<"index">> \o columns
    /\ pc' = "fill"
    /\ UNCHANGED <<args, column, dup_ends, order, recurs, new_df, log>>

\* the loop over consecutive rows
FillFrame ==
    /\ pc = "fill"
    /\ LET col_ix == [k \in 1..Len(columns_names) |-> get_loc(columns, columns_names[k])]
       IN  df' = fill_loop(df, 1, col_ix)
    /\ pc' = "drop"
    /\ UNCHANGED <<args, columns, column, dup_ends, order, recurs, new_df, log>>

\* df.drop(['index'], ...) and the recursive call
\* duplicate_column_checker(df, columns_names, order=True, recurs=recurs-1,
\* dup_ends=dup_ends): column takes its default
DropIndexAndRecurse ==
    /\ pc = "drop"
    /\ df' = [i \in 1..Len(df) |-> DropCell(df[i], "index")]
    /\ columns' = SelectSeq(columns, LAMBDA c : c # "index")
    /\ column' = DefaultColumn
    /\ order' = TRUE
    /\ recurs' = recurs - 1
    /\ dup_ends' = dup_ends
    /\ pc' = "check"
    /\ UNCHANGED <<args, new_df, log>>

\* removed_rows_values without the negation of the mask: the rows kept
removed_rows_values_kept(frame, mask) ==
    LET removed == BoolIndex(frame, mask)
        values == [i \in 1..Len(removed) |-> removed[i][col]]
    IN  IF \E i \in 1..Len(values) : values[i] = NaN
        THEN TypeError
        ELSE Join(<<" ">>, values)

\* " ".join(df[~remove_rows][col].tolist()): join takes strings only, a NaN
\* (a float) among the values raises TypeError
removed_rows_values(frame, mask) ==
    LET removed == BoolIndex(frame, [i \in 1..Len(mask) |-> ~mask[i]])
        values == [i \in 1..Len(removed) |-> removed[i][col]]
    IN  IF \E i \in 1..Len(values) : values[i] = NaN
        THEN TypeError
        ELSE Join(<<" ">>, values)

\* get_loc of the column_list and the apply of identify_null_data
col_list_ix == [k \in 1..Len(column_list) |-> get_loc(columns, column_list[k])]

remove_rows == [i \in 1..Len(df) |-> identify_null_data(df[i], col_list_ix)]

\* with warn set, the join of line 34 raises: nothing is logged and nothing
\* is returned
RaiseTypeError ==
    /\ pc = "filter"
    /\ warn
    /\ removed_rows_values(df, remove_rows) = TypeError
    /\ pc' = "TypeError"
    /\ UNCHANGED <<args, df, columns, column, dup_ends, order, recurs, new_df, log>>

\* the rest of duplicate_resolver: the filter, the warning and the return
FilterAndReturn ==
    /\ pc = "filter"
    /\ warn => removed_rows_values(df, remove_rows) # TypeError
    /\ new_df' = BoolIndex(df, remove_rows)
    /\ log' = IF warn
              THEN Append(log, [col |-> col,
                                removed |-> removed_rows_values(df, remove_rows)])
              ELSE log
    /\ pc' = "done"
    /\ UNCHANGED <<args, df, columns, column, dup_ends, order, recurs>>

Next ==
    \/ CallChecker
    \/ CallCheckerDirectly
    \/ ReturnFrame
    \/ ReplaceDashes
    \/ FillSame
    \/ RaiseKeyError
    \/ SortFrame
    \/ FillFrame
    \/ DropIndexAndRecurse
    \/ RaiseTypeError
    \/ FilterAndReturn

Spec == Init /\ [][Next]_vars

----------------------------------------------------------------------------
(* Vocabulary of the properties *)

Terminated == pc \in {"done", "KeyError", "AttributeError", "TypeError"}

\* a dash counts as null
IsNull(v) == v = NaN \/ v = Dash

\* the column is one of the reconciliation columns
InColumnList(c) == \E k \in 1..Len(column_list) : column_list[k] = c

\* the set of the rows of a frame
RowsOf(t) == {t[i] : i \in 1..Len(t)}

\* v is the identity value w of the input table as a frame holds it: w
\* itself, or NaN for the dash
SameIdentity(v, w) == v = w \/ (w = Dash /\ v = NaN)

\* the row of the input table with the identity value id
InputRow(id) == input[CHOOSE i \in 1..Len(input) : SameIdentity(id, input[i][col])]

\* the rows of df that the final filter removed
Removed == {r \in RowsOf(df) : r \notin RowsOf(new_df)}

\* some reconciliation column of the row holds a value
HasData(r) == \E k \in 1..Len(column_list) : ~IsNull(r[column_list[k]])

\* the suffix makes id a duplicate name of base, for the caller's suffix list
IsDuplicateOf(id, base) ==
    \E k \in 1..Len(dup_ends_arg) : Len(base) > 0 /\ id = base \o dup_ends_arg[k]

\* the text split at its spaces
RECURSIVE Split(_)
Split(text) ==
    IF Len(text) = 0 THEN <<>>
    ELSE LET spaces == {i \in 1..Len(text) : text[i] = " "}
         IN  IF spaces = {} THEN <<text>>
             ELSE LET p == CHOOSE i \in spaces : \A j \in spaces : i <= j
                  IN  <<SubSeq(text, 1, p - 1)>> \o Split(SubSeq(text, p + 1, Len(text)))

----------------------------------------------------------------------------
(* C1 *)

\* C1: in the returned table a row of the frame left by the passes is missing
\* exactly when all its reconciliation columns are null (a dash counts as
\* null, a string such as the text 'nan' does not), whatever its other
\* columns hold; the returned rows are rows of that frame.
C1_RemovedIffAllNull ==
    pc = "done" =>
        /\ \A r \in RowsOf(df) : (r \in RowsOf(new_df)) <=> HasData(r)
        /\ RowsOf(new_df) \subseteq RowsOf(df)

----------------------------------------------------------------------------
(* C4 *)

\* the rows the call still holds: those of the working frame and, once it
\* has returned, those of the returned frame
Surviving == RowsOf(df) \cup RowsOf(new_df)

\* the columns of the input table outside the reconciliation set
OutsideColumns ==
    {in_columns[k] : k \in {k \in 1..Len(in_columns) : ~InColumnList(in_columns[k])}}

\* C4 as stated: in every state every surviving row holds, in every column
\* outside the reconciliation set, the value it has in the input table.
C4_OutsideColumnsUntouched ==
    \A r \in Surviving : \A c \in OutsideColumns : r[c] = InputRow(r[col])[c]

\* C4 amended: in every state every surviving row holds, in every column
\* outside the reconciliation set, the value it has in the input table, or
\* NaN where the input table has a dash there.
C4_OutsideColumnsOnlyNormalized ==
    \A r \in Surviving : \A c \in OutsideColumns :
        \/ r[c] = InputRow(r[col])[c]
        \/ InputRow(r[col])[c] = Dash /\ r[c] = NaN

\* a returned row that a fill has changed in a reconciliation column, next
\* to a row of its group, and whose input has a dash outside the
\* reconciliation set
C4_Witness ==
    /\ pc = "done"
    /\ \E r \in RowsOf(new_df) :
          /\ \E c \in OutsideColumns : InputRow(r[col])[c] = Dash /\ r[c] = NaN
          /\ \E k \in 1..Len(column_list) :
                /\ InputRow(r[col])[column_list[k]] = NaN
                /\ r[column_list[k]] # NaN
          /\ \E c \in OutsideColumns \ {col} : InputRow(r[col])[c] = r[c] /\ r[c] # NaN

----------------------------------------------------------------------------
(* C6 *)

\* C6 as stated: in every state every identity value of the working frame
\* and of the returned frame is an identity value of the input table, no
\* identity value occurs in more rows than in the input table, and no
\* frame has more rows than the input table.
C6_NoFabricatedRows ==
    /\ \A r \in Surviving : \E i \in 1..Len(input) : input[i][col] = r[col]
    /\ \A t \in {df, new_df} :
          /\ Len(t) <= Len(input)
          /\ \A i \in 1..Len(input) :
                Cardinality({j \in 1..Len(t) : t[j][col] = input[i][col]})
                    <= Cardinality({j \in 1..Len(input) : input[j][col] = input[i][col]})

\* C6 amended: in every state every identity value of the working frame
\* and of the returned frame is an identity value of the input table, or
\* NaN where the input table has the dash; no identity value occurs in
\* more rows than in the input table, and no frame has more rows than the
\* input table.
C6_IdentitiesOnlyNormalized ==
    /\ \A r \in Surviving : \E i \in 1..Len(input) : SameIdentity(r[col], input[i][col])
    /\ \A t \in {df, new_df} :
          /\ Len(t) <= Len(input)
          /\ \A i \in 1..Len(input) :
                Cardinality({j \in 1..Len(t) : SameIdentity(t[j][col], input[i][col])})
                    <= Cardinality({j \in 1..Len(input) : input[j][col] = input[i][col]})

\* a returned table that keeps a row whose key was cut from its identity
\* value and the row whose identity value was the dash, after the filter
\* removed another row
C6_Witness ==
    /\ pc = "done"
    /\ \E r \in RowsOf(new_df) : r["same"] # r[col]
    /\ \E r \in RowsOf(new_df) : r[col] = NaN
    /\ \E i \in 1..Len(input) : input[i][col] = Dash
    /\ Removed # {}

----------------------------------------------------------------------------
(* C8 *)

\* C8 as stated: a call with an empty column_list never returns a table.
C8_EmptyListRejected == Len(column_list) = 0 => pc # "done"

\* C8 amended: a call with an empty column_list is not rejected for it: the
\* passes run and fill nothing (every row keeps its input cells, dashes
\* turned to NaN), and with the identity column named "Sample" the call
\* ends by returning a table with no rows, every row of the frame having
\* been removed; only when the identity column holds nothing but dashes
\* does it end with the AttributeError of the first pass instead, and
\* otherwise when warn is set and an identity value is the dash with the
\* TypeError of the join.
C8_EmptyListDropsEveryRow ==
    Len(column_list) = 0 =>
        /\ Len(df) = Len(input)
        /\ \A r \in RowsOf(df) : \A k \in 1..Len(in_columns) :
              LET v == InputRow(r[col])[in_columns[k]]
              IN  r[in_columns[k]] = v \/ (v = Dash /\ r[in_columns[k]] = NaN)
        /\ pc = "done" => new_df = <<>> /\ Removed = RowsOf(df)
        /\ (col = DefaultColumn /\ Terminated) =>
              IF \A i \in 1..Len(input) : input[i][col] = Dash
              THEN pc = "AttributeError" /\ new_df = <<>> /\ log = <<>>
              ELSE IF warn /\ \E i \in 1..Len(input) : input[i][col] = Dash
              THEN pc = "TypeError" /\ new_df = <<>> /\ log = <<>>
              ELSE pc = "done"

\* a call with an empty column_list that returned the empty table although
\* a row held a value and two rows shared a key
C8_Witness ==
    /\ pc = "done"
    /\ Len(column_list) = 0
    /\ new_df = <<>>
    /\ \E r \in RowsOf(df) : r["field1"] # NaN
    /\ \E i \in 1..Len(df) - 1 : df[i]["same"] = df[i + 1]["same"]

----------------------------------------------------------------------------
(* C9 *)

\* the identity values of the removed rows, in the order of the frame
RemovedIdentities ==
    LET gone == SelectSeq(df, LAMBDA r : r \notin RowsOf(new_df))
    IN  [i \in 1..Len(gone) |-> gone[i][col]]

\* C9 as stated: with warn set a returned call has logged a warning exactly
\* when it removed a row, never more than one, and the warning lists the
\* identity values of the removed rows; with warn unset nothing is logged.
C9_WarningOnlyWhenRowsDropped ==
    pc = "done" =>
        IF warn
        THEN /\ Len(log) <= 1
             /\ Len(log) = 1 <=> Removed # {}
             /\ Len(log) = 1 => Split(log[1].removed) = RemovedIdentities
        ELSE log = <<>>

\* C9 amended: with warn set a call that returns logs exactly one warning,
\* also when no row is removed, and that warning lists, separated by
\* spaces, exactly the identity values of the removed rows (none when no
\* row is removed); with warn unset, and before the return, nothing is
\* logged.  A call with warn set that is to remove a row whose identity
\* value is null does not return: it ends with TypeError, nothing logged.
C9_OneWarningPerReturn ==
    /\ pc # "done" => log = <<>>
    /\ pc = "TypeError" =>
          /\ warn
          /\ \E r \in RowsOf(df) : r[col] = NaN /\ ~HasData(r)
    /\ (pc = "done" /\ warn) => \A r \in Removed : r[col] # NaN
    /\ pc = "done" =>
          IF warn
          THEN /\ Len(log) = 1
               /\ log[1].col = col
               /\ Split(log[1].removed) = RemovedIdentities
          ELSE log = <<>>

\* a returned call with warn set that removed two rows and kept one
C9_Witness ==
    /\ pc = "done"
    /\ warn
    /\ Cardinality(Removed) >= 2
    /\ new_df # <<>>
    /\ Len(log) = 1

----------------------------------------------------------------------------
(* C2, C3, C5, C7, C10 *)

\* the identity value of row i of the input table
Id(i) == input[i][col]

\* the identity value ends with one of the caller's suffixes
HasSuffix(id) ==
    \E k \in 1..Len(dup_ends_arg) :
        EndsWith(id, dup_ends_arg[k]) /\ Len(id) > Len(dup_ends_arg[k])

\* C2: when the call has returned, for a canonical row i and its only
\* duplicate row j, where in two reconciliation columns a and b row i
\* holds a value in a and null in b and row j null in a and a value in b,
\* the returned table holds both rows, each with both values.
C2_PairFilledBothWays ==
    pc = "done" =>
        \A i, j \in 1..Len(input) : \A a, b \in 1..Len(column_list) :
            LET fa == column_list[a]
                fb == column_list[b]
            IN  ( /\ IsDuplicateOf(Id(j), Id(i))
                  /\ ~HasSuffix(Id(i))
                  /\ \A k \in 1..Len(input) : IsDuplicateOf(Id(k), Id(i)) => k = j
                  /\ ~IsNull(input[i][fa]) /\ IsNull(input[i][fb])
                  /\ IsNull(input[j][fa]) /\ ~IsNull(input[j][fb]) )
                => \A id \in {Id(i), Id(j)} :
                      \E r \in RowsOf(new_df) :
                          /\ r[col] = id
                          /\ r[fa] = input[i][fa]
                          /\ r[fb] = input[j][fb]

\* C3: once the first pass has written the keys, a row j has the identity
\* value of another row i as its key, row i keeping its own, exactly when
\* the identity value of j is that of i followed by one of the caller's
\* suffixes.
C3_GroupedIffSuffixed ==
    (pc = "sort" /\ recurs = DefaultRecurs) =>
        \A i, j \in 1..Len(df) :
            (i # j /\ df[j]["same"] = df[i][col] /\ df[i]["same"] = df[i][col])
                <=> IsDuplicateOf(df[j][col], df[i][col])

\* C5: when the call has ended, every input row whose identity value ends
\* with none of the caller's suffixes, which no other row names as its
\* base, and which holds a value in a reconciliation column, is in the
\* returned table with the cells of the input table (a dash and null being
\* taken as the same).
C5_LoneRowsKept ==
    Terminated =>
        \A i \in 1..Len(input) :
            ( /\ ~HasSuffix(Id(i))
              /\ \A j \in 1..Len(input) : ~IsDuplicateOf(Id(j), Id(i))
              /\ HasData(input[i]) )
            => /\ pc = "done"
               /\ \E r \in RowsOf(new_df) :
                     /\ r[col] = Id(i)
                     /\ \A k \in 1..Len(in_columns) :
                           \/ r[in_columns[k]] = input[i][in_columns[k]]
                           \/ IsNull(r[in_columns[k]]) /\ IsNull(input[i][in_columns[k]])

\* C7: once two passes have run, for a canonical row i with two duplicate
\* rows j and k, k the later name, where in a reconciliation column only
\* row k holds a value, the canonical row holds that value.
C7_ThreeRowGroupConverges ==
    (pc \in {"filter", "done"}) =>
        \A i, j, k \in 1..Len(input) : \A a \in 1..Len(column_list) :
            LET fa == column_list[a]
            IN  ( /\ IsDuplicateOf(Id(j), Id(i))
                  /\ IsDuplicateOf(Id(k), Id(i))
                  /\ StrLess(Id(j), Id(k))
                  /\ ~HasSuffix(Id(i))
                  /\ ~IsNull(input[k][fa])
                  /\ IsNull(input[i][fa]) /\ IsNull(input[j][fa]) )
                => \E r \in RowsOf(df) : r[col] = Id(i) /\ r[fa] = input[k][fa]

\* C10: at the start of every pass, and when the frame goes back to
\* duplicate_resolver and is returned, the frame has exactly the columns of
\* the input table.
C10_InputColumnsOnly ==
    (pc \in {"check", "filter", "done"}) =>
        /\ columns = in_columns
        /\ \A r \in Surviving : DOMAIN r = {in_columns[k] : k \in 1..Len(in_columns)}

----------------------------------------------------------------------------
(* C11 *)

\* the positions, in the suffix list of the running pass, of the suffixes
\* the value ends with
Matching(value) == {k \in 1..Len(dup_ends) : EndsWith(value, dup_ends[k])}

FirstOf(S) == CHOOSE k \in S : \A m \in S : k <= m

LastOf(S) == CHOOSE k \in S : \A m \in S : m <= k

\* the keys have been written by a pass that reads the identity column
KeysWritten == pc \in {"sort", "fill", "drop"} /\ column = col

\* C11 as stated, read for the identity values a pass cuts at all (those
\* longer than 4 characters): the key of a row whose identity value ends
\* with more than one suffix of the list is that value without the first
\* of these suffixes, and the key of a row whose identity value ends with
\* none is that value.
C11_FirstMatchingSuffixStripped ==
    KeysWritten =>
        \A r \in RowsOf(df) :
            /\ (Cardinality(Matching(r[col])) > 1 /\ Len(r[col]) > MinLen) =>
                  r["same"] = SliceOff(r[col], Len(dup_ends[FirstOf(Matching(r[col]))]))
            /\ Matching(r[col]) = {} => r["same"] = r[col]

\* C11 amended: the key of a row whose identity value is longer than 4
\* characters and ends with more than one suffix of the list is that value
\* without the last of these suffixes in list order; the key of a row
\* whose identity value ends with no suffix, or has 4 characters or fewer,
\* is that value.
C11_LastMatchingSuffixStripped ==
    KeysWritten =>
        \A r \in RowsOf(df) :
            /\ (Cardinality(Matching(r[col])) > 1 /\ Len(r[col]) > MinLen) =>
                  r["same"] = SliceOff(r[col], Len(dup_ends[LastOf(Matching(r[col]))]))
            /\ (Matching(r[col]) = {} \/ Len(r[col]) <= MinLen) => r["same"] = r[col]

\* keys written for a value that ends with two suffixes, the first and the
\* last of which cut it differently, and for a value that ends with none
C11_Witness ==
    /\ KeysWritten
    /\ \E r \in RowsOf(df) :
          /\ Cardinality(Matching(r[col])) > 1
          /\ Len(r[col]) > MinLen
          /\ r["same"] # SliceOff(r[col], Len(dup_ends[FirstOf(Matching(r[col]))]))
          /\ r["same"] # r[col]
    /\ \E r \in RowsOf(df) : Matching(r[col]) = {} /\ r["same"] = r[col]

----------------------------------------------------------------------------
(* C12 *)

\* rows i, i + 1 and i + 2 of the sorted frame open a group of three or more
\* rows in which only row i holds a value in the reconciliation column c
OnlyFirstHolds(i, c) ==
    /\ i + 2 <= Len(df)
    /\ df[i]["same"] = df[i + 1]["same"]
    /\ df[i]["same"] = df[i + 2]["same"]
    /\ i > 1 => df[i - 1]["same"] # df[i]["same"]
    /\ InColumnList(c)
    /\ df[i][c] # NaN
    /\ \A j \in 1..Len(df) : (j # i /\ df[j]["same"] = df[i]["same"]) => df[j][c] = NaN

\* C12 as stated: the adjacency loop of a pass, run on such a group, leaves
\* the value in the second row and the third row null.
C12_ValueMovesOneRow ==
    [][pc = "fill" =>
          \A i \in 1..Len(df) : \A c \in DOMAIN df[i] :
              OnlyFirstHolds(i, c) =>
                  /\ df'[i + 1][c] = df[i][c]
                  /\ df'[i + 2][c] = NaN]_vars

\* C12 amended: the adjacency loop of a pass cascades: run on such a group
\* it leaves the value in the second row, in the third row and in every
\* further row of the group.
C12_ValueCascades ==
    [][pc = "fill" =>
          \A i \in 1..Len(df) : \A c \in DOMAIN df[i] :
              OnlyFirstHolds(i, c) =>
                  \A j \in 1..Len(df) :
                      df[j]["same"] = df[i]["same"] => df'[j][c] = df[i][c]]_vars

\* the first pass has filled a group of three rows of which, in the input
\* table, only the row sorted first held a value in field1
C12_Witness ==
    /\ pc = "drop"
    /\ recurs = DefaultRecurs
    /\ InColumnList("field1")
    /\ \E i \in 1..Len(df) - 2 :
          /\ df[i]["same"] = df[i + 1]["same"]
          /\ df[i]["same"] = df[i + 2]["same"]
          /\ ~IsNull(InputRow(df[i][col])["field1"])
          /\ IsNull(InputRow(df[i + 1][col])["field1"])
          /\ IsNull(InputRow(df[i + 2][col])["field1"])
          /\ df[i + 2]["field1"] = df[i]["field1"]
          /\ df[i + 1]["field1"] = df[i]["field1"]

----------------------------------------------------------------------------
(* C13 *)

\* C13: while a pass started by duplicate_resolver runs, in the first as in
\* the second, the column it groups and sorts by is the caller's col and
\* the suffix list it cuts with is the caller's dup_ends.
C13_PassesUseCallerArguments ==
    (entry = "duplicate_resolver" /\ pc \in {"canon", "sort", "fill", "drop"}) =>
        /\ column = col
        /\ dup_ends = dup_ends_arg

====
